---- MODULE Spec2Model ----
(***************************************************************************)
(* A model of src/LCDMenu.h: the menu parameters (LCDMenuParameter and its *)
(* subclass LCDMenuButton), the flat section that holds them               *)
(* (LCDMenuSection) and the menu controller (LCDMenu) with its dirty       *)
(* flags, its sleep timer and the serial commands it sends to the display. *)
(*                                                                         *)
(* Four specifications share the variables:                                *)
(*   SpecSection  a section on its own: addParameter, nextItem, prevItem;  *)
(*   SpecButton   a button on its own: setValue(int), incValue(int),       *)
(*                init, registerSetValueCallback;                          *)
(*   SpecParam    a numeric parameter on its own: setValue, incValue,      *)
(*                init, registerSetValueCallback;                          *)
(*   Spec         the controller over one section and two parameters.      *)
(***************************************************************************)
EXTENDS Integers, Sequences, FiniteSets, TLC

VARIABLES
    \* LCDMenuParameter / LCDMenuButton objects
    _name,                \* [ParamIds -> string]: LCDMenuParameter::_name
    _id,                  \* [ParamIds -> int]: LCDMenuParameter::_id
    _setValueCallback,    \* [ParamIds -> BOOLEAN]: a callback is set (not NULL)
    _value,               \* [ParamIds -> float]: LCDMenuParameter::_value
    _num_states,          \* LCDMenuButton::_num_states of the button B1
    _state,               \* LCDMenuButton::_state of the button B1
    stack,                \* active LCDMenuButton::incValue frames: their steps arguments
    events,               \* Events passed to a SetValueCallback by the last operation
    \* LCDMenuSection object S1
    _params,              \* the filled part of LCDMenuSection::_params
    _num_params,          \* LCDMenuSection::_num_params
    _index,               \* LCDMenuSection::_index
    \* LCDMenu object
    _dirty,               \* LCDMenu::_dirty
    _dirt,                \* LCDMenu::_dirt[2]
    _is_asleep,           \* LCDMenu::_is_asleep
    _sleep_timeout,       \* LCDMenu::_sleep_timeout
    _last_activity_time,  \* LCDMenu::_last_activity_time
    _root,                \* LCDMenu::_root
    _cur_section,         \* LCDMenu::_cur_section
    \* environment
    now,                  \* what millis() returns
    out,                  \* the serial commands sent by the last operation
    ub,                   \* the undefined behaviour the last operation ran into
    halted,               \* the program has crashed
    last_op               \* the last operation called, with its arguments

identVars   == <<_name, _id, _setValueCallback>>
paramVars   == <<identVars, _value, _num_states, _state, stack, events>>
sectionVars == <<_params, _num_params, _index>>
menuVars    == <<_dirty, _dirt, _is_asleep, _sleep_timeout, _last_activity_time,
                 _root, _cur_section>>
envVars     == <<now, out, ub, halted, last_op>>
vars        == <<paramVars, sectionVars, menuVars, envVars>>

----------------------------------------------------------------------------
(* Bounds of the model *)

\* The largest number of states the button B1 is constructed with.
MaxStates == 4
\* The largest |steps| passed to LCDMenuButton::incValue.
MaxSteps == 5
\* The deepest recursion of LCDMenuButton::incValue that is followed.
MaxDepth == 6
\* The largest |_value| the numeric parameter P1 is driven to.
MaxValue == 1
\* The number of parameters added to the section under the controller.
MaxParams == 2
\* The last instant of the clock.
MaxNow == 45001
\* The largest |value| LCDMenuParameter::setValue is called with.
MaxFloat == 3

(* Program constants *)

\* LCDMenuParameter *_params[8]
Capacity == 8
\* _sleep_timeout = 30*1000
DefaultSleepTimeout == 30000

----------------------------------------------------------------------------
(* The objects the application creates *)

\* A numeric parameter and a button, as an application declares them.
ParamIds == {"P1", "B1"}
\* The null pointer, and the one section.
NULL == "NULL"
SectionIds == {"S1"}

\* A float that may be indeterminate (read from memory nothing initialised);
\* Indet stands for every value such a read can return, and is also what an
\* int read from such memory (an unset _id) is shown as.
Float(x) == [def |-> TRUE, v |-> x]
Indet == [def |-> FALSE, v |-> 0]

\* The record of the last operation: its name and its arguments.
Op(name, is_dirty, row, steps) ==
    [op |-> name, is_dirty |-> is_dirty, row |-> row, steps |-> steps]
Call(name) == Op(name, FALSE, 0, 0)

----------------------------------------------------------------------------
(* LCDMenuSection *)

\* LCDMenuSection::LCDMenuSection()
SectionInit ==
    /\ _params = <<>>
    /\ _num_params = 0
    /\ _index = 0

\* _index after LCDMenuSection::nextItem()
SectionNext(index, num) == IF index < num - 1 THEN index + 1 ELSE 0

\* _index after LCDMenuSection::prevItem()
SectionPrev(index, num) == IF index > 0 THEN index - 1 ELSE num - 1

\* A slip in the test of addParameter: <= for <.
hasRoomOffByOne(num) == num <= Capacity

\* The test of LCDMenuSection::addParameter: _num_params < 8
hasRoom(num) == num < Capacity

\* LCDMenuSection::addParameter(new_param); the record of the call names the
\* parameter by its tag.
AddParameter(p) ==
    /\ ~halted
    /\ IF hasRoom(_num_params)
         THEN /\ _params' = Append(_params, p)
              /\ _num_params' = _num_params + 1
         ELSE UNCHANGED <<_params, _num_params>>
    /\ last_op' = Op("addParameter", FALSE, 0, IF p = "P1" THEN 1 ELSE 2)
    /\ out' = <<>>
    /\ events' = <<>>
    /\ ub' = "none"
    /\ UNCHANGED <<_index, _value, identVars, _num_states, _state, stack, menuVars, now, halted>>

\* LCDMenuSection::nextItem(), called on the section itself
SectionNextItem ==
    /\ ~halted
    /\ _index' = SectionNext(_index, _num_params)
    /\ last_op' = Call("Section::nextItem")
    /\ out' = <<>>
    /\ events' = <<>>
    /\ ub' = "none"
    /\ UNCHANGED <<_params, _num_params, _value, identVars, _num_states, _state, stack,
                   menuVars, now, halted>>

\* LCDMenuSection::prevItem(), called on the section itself
SectionPrevItem ==
    /\ ~halted
    /\ _index' = SectionPrev(_index, _num_params)
    /\ last_op' = Call("Section::prevItem")
    /\ out' = <<>>
    /\ events' = <<>>
    /\ ub' = "none"
    /\ UNCHANGED <<_params, _num_params, _value, identVars, _num_states, _state, stack,
                   menuVars, now, halted>>

----------------------------------------------------------------------------
(* LCDMenuParameter and LCDMenuButton *)

\* The id_tag each parameter is constructed with.
ParamTag(p) == IF p = "P1" THEN 1 ELSE 2

\* The in_inc the numeric parameter P1 is constructed with; B1's inherited
\* _inc is never set.
ParamInc(p) == IF p = "P1" THEN Float(1) ELSE Indet

\* The Event a SetValueCallback receives (event.object, the parameter itself,
\* is named by its tag).
Event(tag, time, value) == [source |-> tag, time |-> time, value |-> value]

\* LCDMenuButton::validState(state)
validState(state, n) == state >= 0 /\ state < n

\* A slip in LCDMenuButton::setValue: the test for a change is left out.
ButtonSetValueStoresAlways(state, n, new_value) == validState(new_value, n)

\* Whether LCDMenuButton::setValue(new_value) takes its first branch, the one
\* that stores the state and calls the callback.
ButtonSetValueStores(state, n, new_value) ==
    state # new_value /\ validState(new_value, n)

\* _state after LCDMenuButton::setValue(new_value)
ButtonSetValueState(state, n, new_value) ==
    IF ButtonSetValueStores(state, n, new_value) THEN new_value
    ELSE IF ~validState(state, n) THEN 0
    ELSE state

\* The events LCDMenuButton::setValue(new_value) passes to the callback: one
\* in the first branch, if a callback is set (if (_setValueCallback)).
ButtonSetValueEvents(state, n, new_value, callback, tag, time) ==
    IF ButtonSetValueStores(state, n, new_value) /\ callback
      THEN <<Event(tag, time, Float(new_value))>>
      ELSE <<>>

\* The argument of setValue in the second branch of LCDMenuButton::incValue,
\* taken when _state + steps < 0.
WrapBelow(state, n, steps) == n - 1 - (state + steps)

\* LCDMenuButton::setValue(new_value), called on the button itself
ButtonSetValue(new_value) ==
    /\ ~halted
    /\ stack = <<>>
    /\ _state' = ButtonSetValueState(_state, _num_states, new_value)
    /\ events' = ButtonSetValueEvents(_state, _num_states, new_value,
                                           _setValueCallback["B1"], _id["B1"], now)
    /\ last_op' = Op("Button::setValue", FALSE, 0, new_value)
    /\ out' = <<>>
    /\ ub' = "none"
    /\ UNCHANGED <<_value, identVars, _num_states, stack, sectionVars, menuVars, now, halted>>

\* A call of LCDMenuButton::incValue(steps) on the button itself: its frame
\* is entered.
ButtonIncValue(steps) ==
    /\ ~halted
    /\ stack = <<>>
    /\ stack' = <<steps>>
    /\ events' = <<>>
    /\ last_op' = Op("Button::incValue", FALSE, 0, steps)
    /\ out' = <<>>
    /\ ub' = "none"
    /\ UNCHANGED <<_value, identVars, _num_states, _state, sectionVars, menuVars, now, halted>>

\* The body of the innermost LCDMenuButton::incValue frame: it either calls
\* itself, or it calls setValue and with that every frame returns (nothing
\* follows the recursive call).
ButtonIncValueStep ==
    /\ ~halted
    /\ stack # <<>>
    /\ LET steps == stack[Len(stack)] IN
         IF _state + steps >= _num_states
           THEN /\ Len(stack) < MaxDepth
                /\ stack' = Append(stack, _state + steps - _num_states)
                /\ UNCHANGED <<_state, events>>
           ELSE LET new_value == IF _state + steps < 0
                                   THEN WrapBelow(_state, _num_states, steps)
                                   ELSE _state + steps IN
                /\ _state' = ButtonSetValueState(_state, _num_states, new_value)
                /\ events' = ButtonSetValueEvents(_state, _num_states, new_value,
                                           _setValueCallback["B1"], _id["B1"], now)
                /\ stack' = <<>>
    /\ UNCHANGED <<_value, identVars, _num_states, sectionVars, menuVars, envVars>>

\* The names and the identity tags init is called with.
Names == {"P1", "B1", "renamed"}
IdTags == {ParamTag(p) : p \in ParamIds} \cup {ParamTag("P1") + ParamTag("B1")}

\* LCDMenuParameter::registerSetValueCallback(newCallback) on parameter p;
\* newCallback is FALSE for NULL.
RegisterSetValueCallback(p, newCallback) ==
    /\ ~halted
    /\ stack = <<>>
    /\ _setValueCallback' = [_setValueCallback EXCEPT ![p] = newCallback]
    /\ last_op' = Op("registerSetValueCallback", FALSE, 0, ParamTag(p))
    /\ out' = <<>>
    /\ events' = <<>>
    /\ ub' = "none"
    /\ UNCHANGED <<_name, _id, _value, _num_states, _state, stack, sectionVars,
                   menuVars, now, halted>>

\* LCDMenuParameter::init(in_name, id_tag, setValueCallback) on parameter p
ParamInit(p, in_name, id_tag, setValueCallback) ==
    /\ ~halted
    /\ stack = <<>>
    /\ _name' = [_name EXCEPT ![p] = in_name]
    /\ _id' = [_id EXCEPT ![p] = id_tag]
    /\ _setValueCallback' = [_setValueCallback EXCEPT ![p] = setValueCallback]
    /\ last_op' = Op("init", FALSE, 0, ParamTag(p))
    /\ out' = <<>>
    /\ events' = <<>>
    /\ ub' = "none"
    /\ UNCHANGED <<_value, _num_states, _state, stack, sectionVars, menuVars,
                   now, halted>>

----------------------------------------------------------------------------
(* Floats that may be indeterminate, and LCDMenuParameter's own methods *)

FloatAdd(a, b) == IF a.def /\ b.def THEN Float(a.v + b.v) ELSE Indet
FloatMul(a, b) == IF a.def /\ b.def THEN Float(a.v * b.v) ELSE Indet

\* The argument LCDMenuParameter::incValue(steps) passes to setValue.
ParamIncTarget(value, inc, steps) == FloatAdd(value, FloatMul(inc, Float(steps)))

\* The parameter LCDMenuSection::getCurrentParameter() returns: the one under
\* the cursor, or "new", a fresh LCDMenuParameter() none of whose fields is set.
getCurrentParameter ==
    IF _index >= 0 /\ _index < _num_params THEN _params[_index + 1] ELSE "new"

\* LCDMenuParameter::isFloatValue(), which LCDMenuButton overrides.
isFloatValue(p) == p # "B1"

\* The text Serial.print(cur_param->getName()) sends ("?": indeterminate bytes).
getName(p) == IF p \in ParamIds THEN _name[p] ELSE "?"

\* The text Serial.print(cur_param->getValue()) sends.
getValueText(p) ==
    IF p \in ParamIds /\ _value[p].def THEN ToString(_value[p].v) ELSE "?"

\* The text LCDMenuButton::getDisplayValue() returns: _state_values[_state],
\* read outside the list when _state is not valid.
getDisplayValue ==
    IF validState(_state, _num_states) THEN "state" \o ToString(_state) ELSE "?"

----------------------------------------------------------------------------
(* LCDMenu *)

\* A display command, and a Serial.print of a text.
Cmd(name) == [cmd |-> name, text |-> ""]
SerialPrint(text) == [cmd |-> "print", text |-> text]

\* A slip in the clamp of setDirty: a row past the second lands on the first.
setDirtyRowsClampFirst(dirt, is_dirty, row) ==
    IF row <= 0 THEN [i \in 0..1 |-> is_dirty]
    ELSE [dirt EXCEPT ![IF row <= 2 THEN row - 1 ELSE 0] = is_dirty]

\* _dirt after LCDMenu::setDirty(is_dirty, row)
setDirtyRows(dirt, is_dirty, row) ==
    IF row <= 0 THEN [i \in 0..1 |-> is_dirty]
    ELSE [dirt EXCEPT ![IF row <= 2 THEN row - 1 ELSE 1] = is_dirty]

\* A slip in setDirty: the display is marked for refresh whatever is_dirty is.
setDirtyAnyAlways(dirty, is_dirty, row) == TRUE

\* _dirty after LCDMenu::setDirty(is_dirty, row)
setDirtyAny(dirty, is_dirty, row) == is_dirty

\* The commands LCDMenu::stayAwake() sends.
stayAwakeOut(is_asleep) == IF is_asleep THEN <<Cmd("backlightOn")>> ELSE <<>>

\* A slip in stayAwake: the time is taken inside the if, on waking only.
stayAwakeTimeOnWake(is_asleep, last, time) == IF is_asleep THEN time ELSE last

\* _last_activity_time after LCDMenu::stayAwake()
stayAwakeTime(is_asleep, last, time) == time

\* A slip in the test: the timeout itself already puts the display to sleep.
sleepDueAtLeast(time, last, timeout) == time - last >= timeout

\* A slip in the test: the time since the start is compared, not the time
\* since the last activity.
sleepDueSinceStart(time, last, timeout) == time > timeout

\* The test of LCDMenu::printMenu() that puts the display to sleep:
\* millis() - _last_activity_time > _sleep_timeout
\* (unsigned long arithmetic; the clock of the model stays below MaxNow, far
\* from the wrap of millis(), so the difference is the time that has passed)
sleepDue(time, last, timeout) == time - last > timeout

\* LCDMenu::stayAwake(), after the commands `sent` of the calling operation.
stayAwakeThen(sent) ==
    /\ _is_asleep' = FALSE
    /\ _last_activity_time' = stayAwakeTime(_is_asleep, _last_activity_time, now)
    /\ out' = sent \o stayAwakeOut(_is_asleep)

\* LCDMenu::setDirty(is_dirty, row), after the commands `sent`.
setDirtyThen(is_dirty, row, sent) ==
    /\ _dirty' = setDirtyAny(_dirty, is_dirty, row)
    /\ _dirt' = setDirtyRows(_dirt, is_dirty, row)
    /\ stayAwakeThen(sent)

\* LCDMenu::LCDMenu(): clearLCD(), backlightOn(), screenSize(5), setDirty(true)
MenuInit ==
    /\ _root = NULL
    /\ _cur_section = NULL
    /\ _is_asleep = FALSE
    /\ _sleep_timeout = DefaultSleepTimeout
    /\ _dirty = TRUE
    /\ _dirt = [i \in 0..1 |-> TRUE]
    /\ _last_activity_time = now
    /\ out = <<Cmd("clearLCD"), Cmd("backlightOn"), Cmd("screenSize")>>

\* What an operation that dereferences _cur_section can do: with the section
\* set it goes on; with the null pointer it either crashes or goes on with
\* whatever the read returned.
Crashes == IF _cur_section = NULL THEN BOOLEAN ELSE {FALSE}
NullUb == IF _cur_section = NULL THEN "null_section" ELSE "none"

\* The program stops inside an operation that has sent `sent`.
Crash(why, sent) ==
    /\ halted' = TRUE
    /\ ub' = why
    /\ out' = sent

\* The parameter printMenu and incCurrentParam work on.
curParam == IF _cur_section = NULL THEN "new" ELSE getCurrentParameter

\* The commands of printMenu for the first row.
printRowOne(dirt, p) ==
    IF dirt[0] THEN <<Cmd("selectLineOne"), SerialPrint(getName(p))>> ELSE <<>>

\* The commands of printMenu for the second row.
printRowTwo(dirt, p) ==
    IF dirt[1]
      THEN <<Cmd("selectLineTwo"),
             SerialPrint(IF isFloatValue(p) THEN getValueText(p) ELSE getDisplayValue)>>
      ELSE <<>>

\* The full clear printMenu starts with when both rows are marked.
printClear(dirt) == IF dirt[0] /\ dirt[1] THEN <<Cmd("clearLCD")>> ELSE <<>>

\* The undefined behaviour printMenu runs into while it prints parameter p.
printUb(dirt, p) ==
    IF _cur_section = NULL THEN "null_section"
    ELSE IF p = "new" /\ (dirt[0] \/ dirt[1]) THEN "uninit"
    ELSE IF p = "B1" /\ dirt[1] /\ ~validState(_state, _num_states) THEN "oob"
    ELSE "none"

\* How the redraw branch of printMenu can end for parameter p: it returns,
\* or the program stops in the read through the null _cur_section (line
\* 234), in Serial.print of the _name a fresh LCDMenuParameter() never set
\* (line 238), or in Serial.print of a _state_values entry read outside the
\* list (line 246).  Each of the three reads may also go through and print
\* what it found.
printEnds(dirt, p) ==
    {"returns"}
      \cup (IF _cur_section = NULL THEN {"line234"} ELSE {})
      \cup (IF p = "new" /\ dirt[0] THEN {"line238"} ELSE {})
      \cup (IF p = "B1" /\ dirt[1] /\ ~validState(_state, _num_states)
              THEN {"line246"} ELSE {})

\* The commands printMenu has sent when it stops at `end`.
printSent(end, dirt, p) ==
    IF end = "line234" THEN printClear(dirt)
    ELSE IF end = "line238" THEN printClear(dirt) \o <<Cmd("selectLineOne")>>
    ELSE printClear(dirt) \o printRowOne(dirt, p) \o <<Cmd("selectLineTwo")>>

\* _dirt when printMenu stops at `end`: the first row is cleared (line 239)
\* only once its text is out.
printDirtAt(end, dirt) ==
    IF end = "line246" THEN [dirt EXCEPT ![0] = FALSE] ELSE dirt

\* LCDMenu::printMenu()
PrintMenu ==
    /\ ~halted
    /\ last_op' = Call("printMenu")
    /\ events' = <<>>
    /\ IF _dirty
         THEN \E end \in printEnds(_dirt, curParam) :
                /\ _dirty' = FALSE
                /\ IF end # "returns"
                     THEN /\ Crash(printUb(_dirt, curParam),
                                   printSent(end, _dirt, curParam))
                          /\ _dirt' = printDirtAt(end, _dirt)
                     ELSE /\ _dirt' = [i \in 0..1 |-> FALSE]
                          /\ out' = printClear(_dirt) \o printRowOne(_dirt, curParam)
                                      \o printRowTwo(_dirt, curParam)
                          /\ ub' = printUb(_dirt, curParam)
                          /\ UNCHANGED halted
                /\ UNCHANGED _is_asleep
         ELSE /\ IF sleepDue(now, _last_activity_time, _sleep_timeout)
                   THEN /\ out' = <<Cmd("backlightOff")>>
                        /\ _is_asleep' = TRUE
                   ELSE /\ out' = <<>>
                        /\ UNCHANGED _is_asleep
              /\ ub' = "none"
              /\ UNCHANGED <<_dirty, _dirt, halted>>
    /\ UNCHANGED <<identVars, _value, _num_states, _state, stack, sectionVars,
                   _sleep_timeout, _last_activity_time, _root, _cur_section, now>>

\* LCDMenu::nextItem()
NextItem ==
    /\ ~halted
    /\ last_op' = Call("nextItem")
    /\ events' = <<>>
    /\ \E crash \in Crashes :
         IF crash
           THEN /\ Crash("null_section", <<>>)
                /\ UNCHANGED <<_index, _dirty, _dirt, _is_asleep, _last_activity_time>>
           ELSE /\ _index' = IF _cur_section = NULL THEN _index
                             ELSE SectionNext(_index, _num_params)
                /\ setDirtyThen(TRUE, 0, <<>>)
                /\ ub' = NullUb
                /\ UNCHANGED halted
    /\ UNCHANGED <<_value, identVars, _num_states, _state, stack, _params, _num_params,
                   _sleep_timeout, _root, _cur_section, now>>

\* LCDMenu::prevItem()
PrevItem ==
    /\ ~halted
    /\ last_op' = Call("prevItem")
    /\ events' = <<>>
    /\ \E crash \in Crashes :
         IF crash
           THEN /\ Crash("null_section", <<>>)
                /\ UNCHANGED <<_index, _dirty, _dirt, _is_asleep, _last_activity_time>>
           ELSE /\ _index' = IF _cur_section = NULL THEN _index
                             ELSE SectionPrev(_index, _num_params)
                /\ setDirtyThen(TRUE, 0, <<>>)
                /\ ub' = NullUb
                /\ UNCHANGED halted
    /\ UNCHANGED <<_value, identVars, _num_states, _state, stack, _params, _num_params,
                   _sleep_timeout, _root, _cur_section, now>>

\* A slip in setValue: the callback is called without the test for a change.
setValueEventsAlways(value, new_value, callback, tag, time) ==
    IF callback THEN <<Event(tag, time, new_value)>> ELSE <<>>

\* The events LCDMenuParameter::setValue(new_value) passes to the callback:
\* one, when the value differs from the stored one and a callback is set
\* (if (_setValueCallback)).
setValueEvents(value, new_value, callback, tag, time) ==
    IF value # new_value /\ callback
      THEN <<Event(tag, time, new_value)>>
      ELSE <<>>

\* What LCDMenuParameter::setValue(new_value) can do on parameter p, as a
\* set of outcomes [value, events, crash, ub].  P1 stores a changed value
\* and calls its callback, if it has one.  On B1 the inherited _value and
\* _inc were never set and on a fresh LCDMenuParameter() neither were _id
\* and _setValueCallback: the comparison goes either way, and the call
\* through the unset pointer is skipped (it reads as NULL), crashes, or
\* reaches a callback an earlier object in that memory had.  The Event then
\* carries the _id and the value found in that memory: whatever int and
\* float they are, which Indet stands for.
setValueOutcomes(p, new_value) ==
    IF p = "P1"
      THEN {[value |-> new_value,
             events |-> setValueEvents(_value[p], new_value,
                                       _setValueCallback[p], _id[p], now),
             crash |-> FALSE, ub |-> "none"]}
    ELSE IF p = "B1"
      THEN {[value |-> Indet, events |-> e, crash |-> FALSE, ub |-> "uninit"] :
               e \in {<<>>} \cup (IF _setValueCallback[p]
                                     THEN {<<Event(_id[p], now, Indet)>>}
                                     ELSE {})}
    ELSE {[value |-> Indet, events |-> <<>>, crash |-> c, ub |-> "uninit"] :
               c \in BOOLEAN}
           \cup {[value |-> Indet, events |-> <<Event(Indet, now, Indet)>>,
                  crash |-> FALSE, ub |-> "uninit"]}

\* LCDMenu::incCurrentParam(inc): the call binds to LCDMenuParameter::incValue
\* (it is not virtual), then setDirty(true, 2).
IncCurrentParam(inc) ==
    /\ ~halted
    /\ last_op' = Op("incCurrentParam", FALSE, 0, inc)
    /\ \E crash \in Crashes :
         IF crash
           THEN /\ Crash("null_section", <<>>)
                /\ events' = <<>>
                /\ UNCHANGED <<_value, _dirty, _dirt, _is_asleep, _last_activity_time>>
           ELSE LET p == curParam
                    target == IF p \in ParamIds
                                THEN ParamIncTarget(_value[p], ParamInc(p), inc)
                                ELSE Indet
                IN  /\ target.v >= -MaxValue /\ target.v <= MaxValue
                    /\ \E o \in setValueOutcomes(p, target) :
                         /\ events' = o.events
                         /\ _value' = IF p \in ParamIds
                                        THEN [_value EXCEPT ![p] = o.value]
                                        ELSE _value
                         /\ IF o.crash
                              THEN /\ Crash(o.ub, <<>>)
                                   /\ UNCHANGED <<_dirty, _dirt, _is_asleep,
                                                  _last_activity_time>>
                              ELSE /\ setDirtyThen(TRUE, 2, <<>>)
                                   /\ ub' = IF _cur_section = NULL
                                              THEN "null_section" ELSE o.ub
                                   /\ UNCHANGED halted
    /\ UNCHANGED <<identVars, _num_states, _state, stack, sectionVars, _sleep_timeout,
                   _root, _cur_section, now>>

\* LCDMenuParameter::setValue(new_value), called on the numeric parameter P1
NumericSetValue(new_value) ==
    /\ ~halted
    /\ last_op' = Op("Parameter::setValue", FALSE, 0, new_value)
    /\ \E o \in setValueOutcomes("P1", Float(new_value)) :
         /\ _value' = [_value EXCEPT !["P1"] = o.value]
         /\ events' = o.events
         /\ ub' = o.ub
    /\ out' = <<>>
    /\ UNCHANGED <<identVars, _num_states, _state, stack, sectionVars, menuVars, now, halted>>

\* LCDMenuParameter::incValue(steps), called on the numeric parameter P1
NumericIncValue(steps) ==
    /\ ~halted
    /\ last_op' = Op("Parameter::incValue", FALSE, 0, steps)
    /\ LET target == ParamIncTarget(_value["P1"], ParamInc("P1"), steps) IN
         /\ target.v >= -MaxFloat /\ target.v <= MaxFloat
         /\ \E o \in setValueOutcomes("P1", target) :
              /\ _value' = [_value EXCEPT !["P1"] = o.value]
              /\ events' = o.events
              /\ ub' = o.ub
    /\ out' = <<>>
    /\ UNCHANGED <<identVars, _num_states, _state, stack, sectionVars, menuVars, now, halted>>

\* LCDMenu::addSection(section, parent)
AddSection(section) ==
    /\ ~halted
    /\ last_op' = Call("addSection")
    /\ events' = <<>>
    /\ _cur_section' = section
    /\ _root' = IF _root = NULL THEN section ELSE _root
    /\ setDirtyThen(TRUE, 0, <<>>)
    /\ ub' = "none"
    /\ UNCHANGED <<identVars, _value, _num_states, _state, stack, sectionVars,
                   _sleep_timeout, now, halted>>

\* LCDMenu::setDirty(is_dirty, row), called on the controller itself
SetDirty(is_dirty, row) ==
    /\ ~halted
    /\ last_op' = Op("setDirty", is_dirty, row, 0)
    /\ events' = <<>>
    /\ setDirtyThen(is_dirty, row, <<>>)
    /\ ub' = "none"
    /\ UNCHANGED <<_value, identVars, _num_states, _state, stack, sectionVars, _sleep_timeout,
                   _root, _cur_section, now, halted>>

\* LCDMenu::stayAwake(), called on the controller itself
StayAwake ==
    /\ ~halted
    /\ last_op' = Call("stayAwake")
    /\ events' = <<>>
    /\ stayAwakeThen(<<>>)
    /\ ub' = "none"
    /\ UNCHANGED <<_value, identVars, _num_states, _state, stack, sectionVars, _dirty, _dirt,
                   _sleep_timeout, _root, _cur_section, now, halted>>

\* LCDMenu::sleep(), called on the controller itself
Sleep ==
    /\ ~halted
    /\ last_op' = Call("sleep")
    /\ events' = <<>>
    /\ out' = <<Cmd("backlightOff")>>
    /\ _is_asleep' = TRUE
    /\ ub' = "none"
    /\ UNCHANGED <<_value, identVars, _num_states, _state, stack, sectionVars, _dirty, _dirt,
                   _sleep_timeout, _last_activity_time, _root, _cur_section, now,
                   halted>>

\* millis() moves on by d between two operations.
Tick(d) ==
    /\ ~halted
    /\ now + d <= MaxNow
    /\ now' = now + d
    /\ last_op' = Call("tick")
    /\ out' = <<>>
    /\ events' = <<>>
    /\ ub' = "none"
    /\ UNCHANGED <<_value, identVars, _num_states, _state, stack, sectionVars, menuVars, halted>>

----------------------------------------------------------------------------
(* Initial states *)

\* The parameters as constructed: P1 = LCDMenuParameter("P1", 1, 0, 1, true, cb)
\* and B1 = LCDMenuButton("B1", 2, values, n, s, cb), whose inherited _value
\* and _inc no constructor sets; each cb is a callback or NULL (the default).
ParamsInit(n, s) ==
    /\ _name = [p \in ParamIds |-> p]
    /\ _id = [p \in ParamIds |-> ParamTag(p)]
    /\ _setValueCallback \in [ParamIds -> BOOLEAN]
    /\ _value = [p \in ParamIds |-> IF p = "P1" THEN Float(0) ELSE Indet]
    /\ _num_states = n
    /\ _state = s
    /\ stack = <<>>
    /\ events = <<>>

\* A controller that is not part of the run.
NoMenu ==
    /\ _dirty = FALSE
    /\ _dirt = [i \in 0..1 |-> FALSE]
    /\ _is_asleep = FALSE
    /\ _sleep_timeout = DefaultSleepTimeout
    /\ _last_activity_time = 0
    /\ _root = NULL
    /\ _cur_section = NULL

EnvInit ==
    /\ now = 0
    /\ out = <<>>
    /\ ub = "none"
    /\ halted = FALSE
    /\ last_op = Call("init")

----------------------------------------------------------------------------
(* The section on its own *)

InitSection ==
    /\ ParamsInit(2, 0)
    /\ SectionInit
    /\ NoMenu
    /\ EnvInit

NextSection ==
    \/ \E p \in ParamIds : AddParameter(p)
    \/ SectionNextItem
    \/ SectionPrevItem

SpecSection == InitSection /\ [][NextSection]_vars

----------------------------------------------------------------------------
(* The button on its own *)

\* LCDMenuButton(name, id, values, num_states, init_state, cb) stores the
\* num_states and the init_state it is given, whatever they are.
InitButton ==
    /\ \E n \in 0..MaxStates : \E s \in -1..MaxStates : ParamsInit(n, s)
    /\ SectionInit
    /\ NoMenu
    /\ EnvInit

NextButton ==
    \/ \E v \in -1..MaxStates : ButtonSetValue(v)
    \/ \E steps \in -MaxSteps..MaxSteps : ButtonIncValue(steps)
    \/ ButtonIncValueStep
    \/ \E cb \in BOOLEAN : RegisterSetValueCallback("B1", cb)
    \/ \E name \in Names : \E tag \in IdTags : \E cb \in BOOLEAN :
         ParamInit("B1", name, tag, cb)

SpecButton == InitButton /\ [][NextButton]_vars

----------------------------------------------------------------------------
(* The numeric parameter on its own *)

InitParam ==
    /\ ParamsInit(2, 0)
    /\ SectionInit
    /\ NoMenu
    /\ EnvInit

NextParam ==
    \/ \E v \in -MaxFloat..MaxFloat : NumericSetValue(v)
    \/ \E steps \in -1..1 : NumericIncValue(steps)
    \/ \E cb \in BOOLEAN : RegisterSetValueCallback("P1", cb)
    \/ \E name \in Names : \E tag \in IdTags : \E cb \in BOOLEAN :
         ParamInit("P1", name, tag, cb)
    \/ \E d \in {15000, 15001} : Tick(d)

SpecParam == InitParam /\ [][NextParam]_vars

----------------------------------------------------------------------------
(* The controller over the section S1 and the parameters P1 and B1 *)

\* The rows setDirty is called with: the default 0, the two rows, and one
\* value on either side of them.
Rows == -1..3
\* The steps incCurrentParam is called with.
Incs == {-1, 0, 1}
\* How far the clock moves between two operations: the steps add up to the
\* sleep timeout exactly and to one millisecond more.
TickSteps == {15000, 15001}

Init ==
    /\ ParamsInit(2, 0)
    /\ SectionInit
    /\ now = 0
    /\ MenuInit
    /\ ub = "none"
    /\ halted = FALSE
    /\ last_op = Call("LCDMenu")

Next ==
    \/ \E p \in ParamIds : _num_params < MaxParams /\ AddParameter(p)
    \/ \E s \in SectionIds : AddSection(s)
    \/ PrintMenu
    \/ NextItem
    \/ PrevItem
    \/ \E inc \in Incs : IncCurrentParam(inc)
    \/ \E d \in BOOLEAN : \E row \in Rows : SetDirty(d, row)
    \/ StayAwake
    \/ Sleep
    \/ \E d \in TickSteps : Tick(d)

Spec == Init /\ [][Next]_vars

----------------------------------------------------------------------------
(* Properties *)

\* The names of the commands in a sequence of commands, in order.
Cmds(seq) == [i \in 1..Len(seq) |-> seq[i].cmd]

\* How many times command `name` occurs in a sequence of commands.
Count(name, seq) == Cardinality({i \in 1..Len(seq) : seq[i].cmd = name})

\* Time since the last activity, as printMenu computes it.
Elapsed == now - _last_activity_time

\* C1: in every state of a section that starts empty and is driven by
\* addParameter, nextItem and prevItem, a section that holds parameters has
\* its cursor in [0, count).
CursorInBounds == _num_params > 0 => (_index >= 0 /\ _index < _num_params)

\* C2: whenever the any-redraw flag _dirty is set, at least one of the two
\* row flags is set.
DirtyImpliesRow == _dirty => (_dirt[0] \/ _dirt[1])

\* C2 witness: incCurrentParam has marked the second row alone.
DirtyOneRow ==
    /\ last_op.op = "incCurrentParam"
    /\ _dirty /\ ~_dirt[0] /\ _dirt[1]

\* C3: whenever one of the two row flags is set, the any-redraw flag _dirty
\* is set (in every state an operation has returned to).
RowImpliesDirty == ~halted => ((_dirt[0] \/ _dirt[1]) => _dirty)

\* C4: a printMenu call that follows setDirty(true) leaves the three flags
\* clear and sends exactly one full clear and, for each row, one cursor
\* command and one text; a printMenu call that finds the any-redraw flag
\* clear, as the first call left it, sends no clear, cursor or text command.
RenderOnce ==
    [][/\ (last_op = Op("setDirty", TRUE, 0, 0) /\ last_op'.op = "printMenu")
            => /\ ~_dirty' /\ ~_dirt'[0] /\ ~_dirt'[1]
               /\ Cmds(out') = <<"clearLCD", "selectLineOne", "print",
                                 "selectLineTwo", "print">>
       /\ (~_dirty /\ last_op'.op = "printMenu")
            => /\ Count("clearLCD", out') = 0
               /\ Count("selectLineOne", out') = 0
               /\ Count("selectLineTwo", out') = 0
               /\ Count("print", out') = 0]_vars

\* C5: a printMenu call turns the backlight off and sets the asleep flag if
\* and only if the any-redraw flag is clear at the call and more than the
\* sleep timeout (30000 ms) has passed since the last activity; otherwise it
\* sends no backlight-off command and leaves the asleep flag as it was.
SleepIffIdle ==
    [][last_op'.op = "printMenu"
         => /\ _sleep_timeout = 30000
            /\ IF ~_dirty /\ Elapsed > _sleep_timeout
                 THEN out' = <<Cmd("backlightOff")>> /\ _is_asleep'
                 ELSE Count("backlightOff", out') = 0 /\ _is_asleep' = _is_asleep]_vars

\* C5 witness: printMenu has put the display to sleep one millisecond after
\* the timeout.
SleptOnTimeout ==
    /\ last_op.op = "printMenu"
    /\ _is_asleep /\ out = <<Cmd("backlightOff")>>
    /\ Elapsed = _sleep_timeout + 1

\* C6, as claimed: the asleep flag is set only if at least the sleep timeout
\* has passed since the last activity.
AsleepOnlyAfterTimeout == _is_asleep => Elapsed >= _sleep_timeout

\* C6, amended: the asleep flag is set with less than the sleep timeout
\* passed since the last activity only by a direct call of sleep(), and stays
\* so only until the next activity.
AsleepEarlyOnlyBySleepCall ==
    [][(_is_asleep' /\ now' - _last_activity_time' < _sleep_timeout')
         => \/ last_op'.op = "sleep"
            \/ (_is_asleep /\ Elapsed < _sleep_timeout)]_vars

\* C6 witness: the display is asleep by the timeout of printMenu, after an
\* earlier activity.
AsleepByTimeout ==
    /\ last_op.op = "printMenu"
    /\ _is_asleep
    /\ _last_activity_time > 0
    /\ Elapsed > _sleep_timeout

\* C7: when nextItem, prevItem, incCurrentParam, addSection or setDirty
\* returns, the asleep flag is clear and the last-activity time is the
\* current time; the call has sent one backlight-on command if the controller
\* was asleep and none otherwise.
ActivityWakes ==
    [][(/\ last_op'.op \in {"nextItem", "prevItem", "incCurrentParam",
                           "addSection", "setDirty"}
        /\ ~halted')
         => /\ ~_is_asleep'
            /\ _last_activity_time' = now'
            /\ Count("backlightOn", out') = IF _is_asleep THEN 1 ELSE 0]_vars

\* C7 witness: a setDirty(false) has woken the sleeping display.
WokenByClearingDirt ==
    /\ last_op.op = "setDirty" /\ ~last_op.is_dirty
    /\ out = <<Cmd("backlightOn")>>
    /\ ~_is_asleep
    /\ now > 0 /\ _last_activity_time = now

\* C8, as claimed: setDirty(is_dirty, row) sets both row flags for row 0,
\* the first alone for row 1, the second alone for row 2 and for every other
\* row, negative or greater than 2.
SetDirtyRowsClaimed ==
    [][last_op'.op = "setDirty"
         => LET d == last_op'.is_dirty
                row == last_op'.row
            IN  /\ row = 0 => (_dirt'[0] = d /\ _dirt'[1] = d)
                /\ row = 1 => (_dirt'[0] = d /\ _dirt'[1] = _dirt[1])
                /\ row = 2 => (_dirt'[1] = d /\ _dirt'[0] = _dirt[0])
                /\ row \notin {0, 1, 2} => (_dirt'[1] = d /\ _dirt'[0] = _dirt[0])]_vars

\* C8, amended: setDirty(is_dirty, row) sets both row flags for row 0 and
\* for every negative row, the first alone for row 1, the second alone for
\* row 2 and for every row greater than 2.
SetDirtyRowsAmended ==
    [][last_op'.op = "setDirty"
         => LET d == last_op'.is_dirty
                row == last_op'.row
            IN  /\ row <= 0 => (_dirt'[0] = d /\ _dirt'[1] = d)
                /\ row = 1 => (_dirt'[0] = d /\ _dirt'[1] = _dirt[1])
                /\ row >= 2 => (_dirt'[1] = d /\ _dirt'[0] = _dirt[0])]_vars

\* C8 witness: setDirty(false, 3) has cleared the second row flag and left
\* the first one set.
ClampedToSecondRow ==
    /\ last_op = Op("setDirty", FALSE, 3, 0)
    /\ _dirt[0] /\ ~_dirt[1]

\* C9: incValue(steps) on a button in a valid state s with s + steps < 0
\* lands on state (s + steps) mod state_count.  (stack[1] is the argument of
\* the call; the step is the one in which the call returns.)
IncValueWrapsDown ==
    [][(/\ stack # <<>> /\ stack' = <<>>
        /\ validState(_state, _num_states)
        /\ _state + stack[1] < 0)
         => _state' = (_state + stack[1]) % _num_states]_vars

\* C10: incValue(steps) with steps >= 0 on a button in any valid state s
\* lands on state (s + steps) mod state_count.
IncValueWrapsUp ==
    [][(/\ stack # <<>> /\ stack' = <<>>
        /\ validState(_state, _num_states)
        /\ stack[1] >= 0)
         => _state' = (_state + stack[1]) % _num_states]_vars

\* C11: the state of a button is in [0, state_count) in every state, from
\* its construction on, so that getDisplayValue reads inside the list.
StateAlwaysValid == validState(_state, _num_states)

\* C12: setValue(v) on the numeric parameter, whose callback is registered,
\* calls the callback not at all when v is the stored value and once when it
\* is not, with the parameter's tag as source and v as value; the stored
\* value is v afterwards either way.
NumericSetValueNotifies ==
    [][(last_op'.op = "Parameter::setValue" /\ _setValueCallback["P1"])
         => LET v == Float(last_op'.steps) IN
            /\ _value'["P1"] = v
            /\ IF _value["P1"] = v
                 THEN events' = <<>>
                 ELSE /\ Len(events') = 1
                      /\ events'[1].source = _id["P1"]
                      /\ events'[1].value = v]_vars

\* C12 witness: setValue has stored a new value and called the callback once.
NumericChangeNotified ==
    /\ last_op.op = "Parameter::setValue"
    /\ _setValueCallback["P1"]
    /\ _value["P1"] = Float(last_op.steps)
    /\ events = <<Event(_id["P1"], now, Float(last_op.steps))>>

\* C13: in every state of a section that holds parameters, prevItem followed
\* by nextItem brings the cursor back to where it was.
PrevThenNextReturns ==
    _num_params > 0
      => SectionNext(SectionPrev(_index, _num_params), _num_params) = _index

\* C14: addParameter on a section that holds 8 parameters changes neither
\* the count, nor the stored parameters, nor the cursor; the count never
\* exceeds 8.
FullSectionDrops ==
    [][/\ _num_params' <= 8
       /\ (last_op'.op = "addParameter" /\ _num_params = 8)
            => UNCHANGED <<_params, _num_params, _index>>]_vars

\* C14 witness: the section is full and the last addParameter was called
\* with another parameter than the last one stored.
FullSectionDropped ==
    /\ last_op.op = "addParameter"
    /\ _num_params = 8 /\ Len(_params) = 8
    /\ last_op.steps # ParamTag(_params[8])

\* C15: on a controller whose section is empty, printMenu and
\* incCurrentParam work on a well-defined default parameter (name empty,
\* value zero, no callback): they return, read nothing undefined, print the
\* empty name and the value 0 and call no callback.
EmptySectionIsSafe ==
    (/\ _cur_section # NULL /\ _num_params = 0
     /\ last_op.op \in {"printMenu", "incCurrentParam"})
      => /\ ub = "none" /\ ~halted
         /\ events = <<>>
         /\ \A i \in 1..Len(out) :
              out[i].cmd = "print" => out[i].text \in {"", "0"}

\* C16: when the current parameter of the active section is the button,
\* incCurrentParam(steps) with steps # 0 moves the button's state index to
\* the cyclically advanced state and calls its callback once with that
\* state (the button has a callback): the increment reaches
\* LCDMenuButton::incValue.
ControllerIncReachesButton ==
    [][(/\ last_op'.op = "incCurrentParam" /\ last_op'.steps # 0
        /\ _cur_section # NULL /\ curParam = "B1"
        /\ validState(_state, _num_states)
        /\ _setValueCallback["B1"]
        /\ ~halted')
         => /\ _state' = (_state + last_op'.steps) % _num_states
            /\ Len(events') = 1
            /\ events'[1].source = _id["B1"]
            /\ events'[1].value = Float(_state')]_vars

\* C17: incValue(steps) on a button terminates for every steps and every
\* button the constructor accepts. _state and _num_states do not change
\* while incValue calls itself, so the recursion ends exactly when every
\* recursive call is made with a strictly smaller argument than its caller's
\* (a call with the same or a larger argument meets the same test again and
\* again): the arguments on the call stack strictly descend.
IncValueTerminates ==
    \A i \in 2..Len(stack) : stack[i] < stack[i - 1]

\* C18: LCDMenuButton::setValue(v). If v differs from the current state and
\* v is in [0, num_states), the state becomes v and the registered callback
\* (when there is one) is called exactly once with value v; otherwise no
\* callback is called and the state is unchanged, except that a current
\* state outside [0, num_states) is reset to 0 (without calling the callback).
ButtonSetValueContract ==
    [][last_op'.op = "Button::setValue"
         => LET v == last_op'.steps IN
            IF v # _state /\ v >= 0 /\ v < _num_states
              THEN /\ _state' = v
                   /\ IF _setValueCallback["B1"]
                        THEN /\ Len(events') = 1
                             /\ events'[1].source = _id["B1"]
                             /\ events'[1].value = Float(v)
                        ELSE events' = <<>>
              ELSE /\ events' = <<>>
                   /\ _state' = IF _state >= 0 /\ _state < _num_states
                                  THEN _state ELSE 0]_vars
ButtonStateStored ==
    /\ last_op.op = "Button::setValue"
    /\ _state = last_op.steps
    /\ _setValueCallback["B1"]
    /\ events = <<Event(_id["B1"], now, Float(last_op.steps))>>

\* C19: from a state with no flag set, an incCurrentParam call marks only
\* the second row (with the global flag); and the printMenu call
\* that follows it sends no full clear, selects the second row and writes
\* the value there, writes nothing to the first row, and leaves every flag
\* clear.
IncRedrawsValueRowOnly ==
    [][/\ (/\ last_op'.op = "incCurrentParam"
           /\ ~_dirty /\ ~_dirt[0] /\ ~_dirt[1])
            => (_dirty' /\ ~_dirt'[0] /\ _dirt'[1])
       /\ (/\ last_op.op = "incCurrentParam" /\ last_op'.op = "printMenu"
           /\ _dirty /\ ~_dirt[0] /\ _dirt[1])
            => /\ Cmds(out') = <<"selectLineTwo", "print">>
               /\ ~_dirty' /\ ~_dirt'[0] /\ ~_dirt'[1]]_vars

\* C20: in every state reachable after the controller is constructed, also
\* before any addSection call, printMenu, nextItem, prevItem and
\* incCurrentParam work on a current section that has been set: none of
\* them dereferences the null section.
NoNullSectionDereference ==
    last_op.op \in {"printMenu", "nextItem", "prevItem", "incCurrentParam"}
      => ub # "null_section"

====
